---------------------------- MODULE Spec2Model ----------------------------
(***************************************************************************)
(* A model of mermaid-mcp-server (src/index.ts): the tool-call handler,    *)
(* the argument validator isGenerateArgs and the rendering adapter         *)
(* renderMermaidPng, as a state machine whose steps are the stretches of   *)
(* code between two awaits.  Several requests may be in flight: a handler  *)
(* gives up control at every await, and the others run in between.         *)
(*                                                                         *)
(* Strings are sequences of tokens (words), so that String.includes, a     *)
(* prefix and a suffix are computed rather than assumed.                   *)
(*                                                                         *)
(* Left out: log() (it changes nothing the handler reads) and the          *)
(* resolution of mermaid's path before puppeteer.launch.                   *)
(***************************************************************************)
EXTENDS Naturals, Sequences, FiniteSets, TLC

(* ------------------------------ bounds --------------------------------- *)

\* The number of tool-call requests the client sends (all may overlap).
NumReqs == 2

\* The number of console messages a page emits at most.
MaxConsole == 2

Reqs == 1..NumReqs

(* ------------------------------ strings -------------------------------- *)

\* String.prototype.includes on token sequences: pat occurs contiguously in s.
Includes(s, pat) ==
  \E i \in 1..(Len(s) + 1) :
     /\ i + Len(pat) - 1 <= Len(s)
     /\ \A k \in 1..Len(pat) : s[i + k - 1] = pat[k]

StartsWith(s, pre) ==
  /\ Len(pre) <= Len(s)
  /\ \A k \in 1..Len(pre) : s[k] = pre[k]

EndsWith(s, suf) ==
  /\ Len(suf) <= Len(s)
  /\ \A k \in 1..Len(suf) : s[Len(s) - Len(suf) + k] = suf[k]

(* ----------------------------- JS values ------------------------------- *)

\* A JavaScript value: its typeof tag and, for a primitive, its text.
Undefined == [t |-> "undefined", v |-> <<>>]
Null      == [t |-> "object",    v |-> <<"null">>]
Str(s)    == [t |-> "string",    v |-> s]
Num(s)    == [t |-> "number",    v |-> <<s>>]
Bool(s)   == [t |-> "boolean",   v |-> <<s>>]

\* ToBoolean: what `!x` and `x || y` test.
Truthy(x) ==
  CASE x.t = "undefined" -> FALSE
    [] x.t = "object"    -> x # Null
    [] x.t = "string"    -> x.v # <<>>
    [] x.t = "number"    -> x.v \notin {<<"0">>, <<"NaN">>}
    [] x.t = "boolean"   -> x.v = <<"true">>
    [] OTHER             -> TRUE

\* a || b
OrElse(a, b) == IF Truthy(a) THEN a ELSE b

\* The property names a request's arguments may carry.
Keys == {"code", "theme", "backgroundColor", "name", "folder"}

\* request.params.arguments: undefined (absent), or an object.  A property
\* the object lacks reads as Undefined; arguments arrive as JSON, which
\* cannot carry a property whose value is undefined, so `'k' in args` is
\* args.p[k] # Undefined.
NoArgs == [kind |-> "undefined", p |-> [k \in Keys |-> Undefined]]
NullArgs == [kind |-> "null", p |-> [k \in Keys |-> Undefined]]
StringArgs == [kind |-> "string", p |-> [k \in Keys |-> Undefined]]

Obj(props) ==
  [kind |-> "object",
   p |-> [k \in Keys |-> IF k \in DOMAIN props THEN props[k] ELSE Undefined]]

EmptyObj == [kind |-> "object", p |-> [k \in Keys |-> Undefined]]

\* A mutant: the handler tests `args === null`.
ArgsFalsy_nullOnly(args) == args.kind = "null"

\* `!args` of the handler.
ArgsFalsy(args) == args.kind \in {"undefined", "null"}

(* ------------------------- the tool's schema --------------------------- *)

Themes == {<<"default">>, <<"forest">>, <<"dark">>, <<"neutral">>}

\* A mutant: the validator does not look at `code`.
isGenerateArgs_noCodeCheck(args) ==
  /\ args.kind \in {"object", "null"}
  /\ args.kind # "null"
  /\ \/ ~Truthy(args.p["theme"])
     \/ (args.p["theme"].t = "string" /\ args.p["theme"].v \in Themes)
  /\ \/ ~Truthy(args.p["backgroundColor"])
     \/ args.p["backgroundColor"].t = "string"

\* src/index.ts:77-90
isGenerateArgs(args) ==
  /\ args.kind \in {"object", "null"}                \* typeof args === 'object'
  /\ args.kind # "null"                              \* args !== null
  /\ args.p["code"] # Undefined                      \* 'code' in args
  /\ args.p["code"].t = "string"                     \* typeof code === 'string'
  /\ \/ ~Truthy(args.p["theme"])                     \* !theme ||
     \/ (args.p["theme"].t = "string" /\ args.p["theme"].v \in Themes)
  /\ \/ ~Truthy(args.p["backgroundColor"])           \* !backgroundColor ||
     \/ args.p["backgroundColor"].t = "string"

(* ------------------------------ responses ------------------------------ *)

TextBlock(text) == [type |-> "text", text |-> text]
ImageBlock(data) == [type |-> "image", data |-> data, mimeType |-> "image/png"]

HasImage(resp) == \E i \in 1..Len(resp.content) : resp.content[i].type = "image"
OnlyText(resp) == \A i \in 1..Len(resp.content) : resp.content[i].type = "text"

\* The three patterns of the handler's isSyntaxError.
SyntaxErrorPat == <<"Syntax", "error">>
ParseErrorPat == <<"Parse", "error">>
RenderFailedPat == <<"Mermaid", "rendering", "failed">>

\* `Mermaid syntax error: ` and `\n\nPlease check your diagram syntax.`
SyntaxHintPrefix == <<"Mermaid", "syntax", "error", ":">>
SyntaxHintSuffix == <<"\n\n", "Please", "check", "your", "diagram", "syntax", ".">>
\* `Error generating diagram: `
GenericPrefix == <<"Error", "generating", "diagram", ":">>

\* A mutant: only renderMermaidPng's own prefix is looked for.
isSyntaxError_renderFailedOnly(errorMessage) == Includes(errorMessage, RenderFailedPat)

\* src/index.ts:281-283
isSyntaxError(errorMessage) ==
  \/ Includes(errorMessage, SyntaxErrorPat)
  \/ Includes(errorMessage, ParseErrorPat)
  \/ Includes(errorMessage, RenderFailedPat)

\* A mutant: the success response is the image block alone.
SuccessResponse_imageOnly(base64Image) ==
  [content |-> << ImageBlock(base64Image) >>, isError |-> FALSE]

\* The handler's return at src/index.ts:264-277.
SuccessResponse(base64Image) ==
  [content |-> << TextBlock(<<"Here", "is", "the", "generated", "image">>),
                  ImageBlock(base64Image) >>,
   isError |-> FALSE]

\* A mutant: the error response is not flagged as an error.
RenderErrorResponse_notError(errorMessage) ==
  [content |-> << TextBlock(IF isSyntaxError(errorMessage)
                            THEN SyntaxHintPrefix \o errorMessage \o SyntaxHintSuffix
                            ELSE GenericPrefix \o errorMessage) >>,
   isError |-> FALSE]

\* The handler's inner catch, src/index.ts:278-296.
RenderErrorResponse(errorMessage) ==
  [content |-> << TextBlock(IF isSyntaxError(errorMessage)
                            THEN SyntaxHintPrefix \o errorMessage \o SyntaxHintSuffix
                            ELSE GenericPrefix \o errorMessage) >>,
   isError |-> TRUE]

\* src/index.ts:299-302
UnknownToolResponse(name) ==
  [content |-> << TextBlock(<<"Unknown", "tool", ":", name>>) >>, isError |-> TRUE]

\* The handler's outer catch, src/index.ts:303-313.
OuterCatchResponse(errorMessage) ==
  [content |-> << TextBlock(<<"Error", ":">> \o errorMessage) >>, isError |-> TRUE]

NoArgumentsMsg == <<"No", "arguments", "provided">>
InvalidArgumentsMsg == <<"Invalid", "arguments", "for", "generate">>
SvgNotFoundMsg == <<"SVG", "element", "not", "found">>
SvgNotFoundAfterRenderingMsg == <<"SVG", "element", "not", "found", "after", "rendering">>
\* `Mermaid rendering failed: ${screenshot.error}`
RenderFailedMsg(error) == <<"Mermaid", "rendering", "failed", ":">> \o error

(* ------------------------- the environment's inputs -------------------- *)

ToolNames == {"generate", "render"}

CodeText == <<"graph", "TD", ";", "A", "-->", "B">>

\* The argument payloads the clients of the model send: absent, without `code`,
\* with a theme outside the enumeration, the minimal one, and a full one.
ArgPayloads ==
  { NoArgs,
    EmptyObj,
    Obj([code |-> Str(CodeText), theme |-> Str(<<"bogus">>)]),
    Obj([code |-> Str(CodeText)]),
    Obj([code |-> Str(CodeText), theme |-> Str(<<"forest">>),
         backgroundColor |-> Str(<<"#F0F0F0">>),
         name |-> Str(<<"diagram1">>), folder |-> Str(<<"/tmp/out">>)]) }

\* The payloads termination is tried on: one that is refused, one that is rendered.
PlainPayloads == { EmptyObj, Obj([code |-> Str(CodeText)]) }

\* The payloads the styling is tried on: no colour and no theme, both empty,
\* and both given.
StylePayloads ==
  { Obj([code |-> Str(CodeText)]),
    Obj([code |-> Str(CodeText), theme |-> Str(<<>>), backgroundColor |-> Str(<<>>)]),
    Obj([code |-> Str(CodeText), theme |-> Str(<<"forest">>),
         backgroundColor |-> Str(<<"#F0F0F0">>)]) }

\* The payloads the validator is tried on: every combination of these values
\* of code, theme and backgroundColor, and three payloads that are no objects.
CodeValues == { Undefined, Null, Str(<<>>), Str(CodeText), Num("5") }
ThemeValues == { Undefined, Null, Str(<<>>), Str(<<"forest">>), Str(<<"bogus">>),
                 Num("0"), Num("1"), Bool("false") }
BackgroundValues == { Undefined, Str(<<"#F0F0F0">>), Num("0"), Num("1"), Bool("false") }

AllPayloads ==
  { NoArgs, NullArgs, StringArgs } \cup
  { Obj([code |-> c, theme |-> t, backgroundColor |-> b]) :
      c \in CodeValues, t \in ThemeValues, b \in BackgroundValues }

\* The messages of the errors puppeteer and fs throw.
EnvMessages == { <<"Protocol", "error">>, <<"Parse", "error", "in", "page">> }

\* The messages of the errors mermaid.render throws.
LibMessages == { <<"No", "diagram", "type", "detected">>,
                 <<"Parse", "error", "on", "line", "1">> }

EnoentMsg == <<"ENOENT", ":", "no", "such", "file">>
FileNotFoundMsg == <<"net::ERR_FILE_NOT_FOUND">>

(* -------------------------------- state -------------------------------- *)

VARIABLES
  server,                 \* "starting", "running" or "exited": runServer and the process
  contentImageSupported,  \* the environment variable CONTENT_IMAGE_SUPPORTED
  fs,                     \* the files that exist: path -> content
  sessions,               \* the browser sessions: id -> "none", "open" or "closed"
  pc,                     \* where each request's handler is suspended
  call,                   \* request.params of each request: [name, args]
  browser,                \* renderMermaidPng's `browser` (a session id; 0: none)
  page,                   \* what the request's page holds: [doc, svg]
  thrown,                 \* the error on its way out of the try block
  shot,                   \* the value on its way out of the try block (base64Image)
  responses,              \* the responses the handler returned for the request
  console,                \* renderMermaidPng's `consoleMessages`
  steps                   \* the steps the request has completed, in order: [op, ok, message]

vars == << server, contentImageSupported, fs, sessions, pc, call, browser, page,
           thrown, shot, responses, console, steps >>

\* path.join(__dirname, 'temp-mermaid.html')
tempHtmlPath == <<"__dirname", "temp-mermaid.html">>

NoError == [threw |-> FALSE, message |-> <<>>]
Err(message) == [threw |-> TRUE, message |-> message]
NoImage == [session |-> 0]
NoDoc == [background |-> <<>>, writer |-> 0]
NoSvg == [code |-> <<>>, theme |-> <<>>, background |-> <<>>]
NoPage == [doc |-> NoDoc, svg |-> NoSvg]
NoCall == [name |-> "", args |-> NoArgs]

Ok(op) == [op |-> op, ok |-> TRUE, message |-> <<>>]
Fail(op, message) == [op |-> op, ok |-> FALSE, message |-> message]

\* A mutant: the document shell's background is always white.
htmlContent_alwaysWhite(config, r) == [background |-> <<"white">>, writer |-> r]

\* The document shell of src/index.ts:122-143: only its background varies.
\* `writer` is not in the file: it records which request wrote it.
htmlContent(config, r) ==
  [background |-> OrElse(config.p["backgroundColor"], Str(<<"white">>)).v,
   writer |-> r]

Init ==
  /\ server = "starting"
  /\ contentImageSupported \in BOOLEAN
  /\ fs = << >>
  /\ sessions = [r \in Reqs |-> "none"]
  /\ pc = [r \in Reqs |-> "idle"]
  /\ call = [r \in Reqs |-> NoCall]
  /\ browser = [r \in Reqs |-> 0]
  /\ page = [r \in Reqs |-> NoPage]
  /\ thrown = [r \in Reqs |-> NoError]
  /\ shot = [r \in Reqs |-> NoImage]
  /\ responses = [r \in Reqs |-> << >>]
  /\ console = [r \in Reqs |-> << >>]
  /\ steps = [r \in Reqs |-> << >>]

(* ------------------------------- runServer ----------------------------- *)

\* A mutant: the process also exits on a failure after the server connected.
Connect_exitAnyTime ==
  /\ \/ server = "starting" /\ server' \in {"running", "exited"}
     \/ server = "running" /\ server' = "exited"
  /\ UNCHANGED << contentImageSupported, fs, sessions, pc, call, browser, page,
                  thrown, shot, responses, console, steps >>

\* src/index.ts:316-325: server.connect resolves, or rejects and the process exits.
Connect ==
  /\ server = "starting"
  /\ server' \in {"running", "exited"}
  /\ UNCHANGED << contentImageSupported, fs, sessions, pc, call, browser, page,
                  thrown, shot, responses, console, steps >>

(* ------------------------- the tool-call handler ----------------------- *)

\* The handler returns `resp`; its locals are gone.
Return(r, resp) ==
  /\ responses' = [responses EXCEPT ![r] = Append(@, resp)]
  /\ pc' = [pc EXCEPT ![r] = "done"]
  /\ thrown' = [thrown EXCEPT ![r] = NoError]
  /\ shot' = [shot EXCEPT ![r] = NoImage]
  /\ console' = [console EXCEPT ![r] = << >>]

\* A mutant: the handler has no inner catch that answers, and the error escapes.
HandlerCatch_escapes(r, errorMessage) ==
  /\ pc' = [pc EXCEPT ![r] = "done"]
  /\ thrown' = [thrown EXCEPT ![r] = NoError]
  /\ shot' = [shot EXCEPT ![r] = NoImage]
  /\ console' = [console EXCEPT ![r] = << >>]
  /\ UNCHANGED responses

\* src/index.ts:278-296: an error out of renderMermaidPng is caught and reported.
HandlerCatch(r, errorMessage) == Return(r, RenderErrorResponse(errorMessage))

\* src/index.ts:245-263, up to the first await: the argument checks, and for an
\* accepted `generate` the call of renderMermaidPng up to puppeteer.launch.
ReceiveFrom(r, payloads) ==
  /\ server = "running"
  /\ pc[r] = "idle"
  /\ \E name \in ToolNames, args \in payloads :
       /\ call' = [call EXCEPT ![r] = [name |-> name, args |-> args]]
       /\ IF ArgsFalsy(args)
            THEN Return(r, OuterCatchResponse(NoArgumentsMsg))
          ELSE IF name # "generate"
            THEN Return(r, UnknownToolResponse(name))
          ELSE IF ~isGenerateArgs(args)
            THEN Return(r, OuterCatchResponse(InvalidArgumentsMsg))
          ELSE /\ pc' = [pc EXCEPT ![r] = "launch"]
               /\ UNCHANGED << responses, thrown, shot, console >>
  /\ UNCHANGED << server, contentImageSupported, fs, sessions, browser, page, steps >>

\* A request of one of the model's clients arrives.
Receive(r) == ReceiveFrom(r, ArgPayloads)

\* A request with one of the payloads termination is tried on arrives.
ReceivePlain(r) == ReceiveFrom(r, PlainPayloads)

\* A request with one of the payloads the styling is tried on arrives.
ReceiveStyled(r) == ReceiveFrom(r, StylePayloads)

\* A request with any of the payloads the validator is tried on arrives.
ReceiveAny(r) == ReceiveFrom(r, AllPayloads)

(* ---------------------------- renderMermaidPng ------------------------- *)

Did(r, evs) == steps' = [steps EXCEPT ![r] = @ \o evs]

\* An awaited call returned and the next one is issued.
Advance(r, evs, next) ==
  /\ Did(r, evs)
  /\ pc' = [pc EXCEPT ![r] = next]
  /\ UNCHANGED << thrown, shot, responses, console >>

\* A mutant: the session is closed on the success path only.
ExitTry_closeOnSuccessOnly(r, evs, error, base64Image) ==
  /\ Did(r, evs)
  /\ IF error.threw
       THEN HandlerCatch(r, error.message)
       ELSE /\ thrown' = [thrown EXCEPT ![r] = error]
            /\ shot' = [shot EXCEPT ![r] = base64Image]
            /\ pc' = [pc EXCEPT ![r] = "close"]
            /\ UNCHANGED << responses, console >>

\* Control leaves the try block of src/index.ts:111-220, by a throw (the catch
\* of 221-231 logs and rethrows) or by the return: the finally block of 232-235
\* runs, and browser.close() is awaited.
ExitTry(r, evs, error, base64Image) ==
  /\ Did(r, evs)
  /\ thrown' = [thrown EXCEPT ![r] = error]
  /\ shot' = [shot EXCEPT ![r] = base64Image]
  /\ pc' = [pc EXCEPT ![r] = "close"]
  /\ UNCHANGED << responses, console >>

\* A mutant: one module-level browser serves the requests; a request launches
\* only when no session is open, and uses the open one otherwise.
LaunchReturn_sharedBrowser(r) ==
  /\ pc[r] = "launch"
  /\ \/ /\ \A s \in Reqs : sessions[s] # "open"
        /\ sessions' = [sessions EXCEPT ![r] = "open"]
        /\ browser' = [browser EXCEPT ![r] = r]
        /\ Advance(r, << Ok("launch") >>, "newPage")
     \/ \E s \in Reqs :
          /\ sessions[s] = "open"
          /\ browser' = [browser EXCEPT ![r] = s]
          /\ Advance(r, << Ok("launch") >>, "newPage")
          /\ UNCHANGED sessions
     \/ \E m \in EnvMessages :
          /\ Did(r, << Fail("launch", m) >>)
          /\ HandlerCatch(r, m)
          /\ UNCHANGED << sessions, browser >>
  /\ UNCHANGED << server, contentImageSupported, fs, call, page >>

\* src/index.ts:102-104: puppeteer.launch resolves, or rejects outside the try.
LaunchReturn(r) ==
  /\ pc[r] = "launch"
  /\ \/ /\ sessions' = [sessions EXCEPT ![r] = "open"]
        /\ browser' = [browser EXCEPT ![r] = r]
        /\ Advance(r, << Ok("launch") >>, "newPage")
     \/ \E m \in EnvMessages :
          /\ Did(r, << Fail("launch", m) >>)
          /\ HandlerCatch(r, m)
          /\ UNCHANGED << sessions, browser >>
  /\ UNCHANGED << server, contentImageSupported, fs, call, page >>

\* src/index.ts:112-152: browser.newPage returns; the document shell is written
\* to the temp file and page.goto is issued.
NewPageReturn(r) ==
  /\ pc[r] = "newPage"
  /\ \/ /\ fs' = [q \in DOMAIN fs \cup {tempHtmlPath} |->
                    IF q = tempHtmlPath THEN htmlContent(call[r].args, r) ELSE fs[q]]
        /\ Advance(r, << Ok("newPage"), Ok("write") >>, "goto")
     \/ \E m \in EnvMessages :
          /\ ExitTry(r, << Ok("newPage"), Fail("write", m) >>, Err(m), NoImage)
          /\ UNCHANGED fs
     \/ \E m \in EnvMessages :
          /\ ExitTry(r, << Fail("newPage", m) >>, Err(m), NoImage)
          /\ UNCHANGED fs
  /\ UNCHANGED << server, contentImageSupported, sessions, call, browser, page >>

\* The nth line the page writes to its console.
ConsoleLine(n) == <<"diag", ToString(n)>>

\* src/index.ts:115-119: the page emits a console message while the request
\* works in it, and the listener stores its text.  (Lines that arrive while
\* browser.close() is awaited are stored too and never read: left out.)
Console(r) ==
  /\ pc[r] \in {"goto", "addScript", "eval", "query", "screenshot"}
  /\ Len(console[r]) < MaxConsole
  /\ console' = [console EXCEPT ![r] = Append(@, ConsoleLine(Len(@) + 1))]
  /\ UNCHANGED << server, contentImageSupported, fs, sessions, pc, call, browser,
                  page, thrown, shot, responses, steps >>

\* A mutant: a navigation that failed is tried again.
GotoReturn_retry(r) ==
  /\ pc[r] = "goto"
  /\ \/ /\ tempHtmlPath \in DOMAIN fs
        /\ page' = [page EXCEPT ![r].doc = fs[tempHtmlPath]]
        /\ Advance(r, << Ok("goto") >>, "addScript")
     \/ \E m \in EnvMessages :
          /\ Advance(r, << Fail("goto", m) >>, "goto")
          /\ UNCHANGED page
  /\ UNCHANGED << server, contentImageSupported, fs, sessions, call, browser >>

\* src/index.ts:152-155: the navigation ends; it loads what is at the path then.
GotoReturn(r) ==
  /\ pc[r] = "goto"
  /\ \/ /\ tempHtmlPath \in DOMAIN fs
        /\ page' = [page EXCEPT ![r].doc = fs[tempHtmlPath]]
        /\ Advance(r, << Ok("goto") >>, "addScript")
     \/ /\ tempHtmlPath \notin DOMAIN fs
        /\ ExitTry(r, << Fail("goto", FileNotFoundMsg) >>, Err(FileNotFoundMsg), NoImage)
        /\ UNCHANGED page
     \/ \E m \in EnvMessages :
          /\ ExitTry(r, << Fail("goto", m) >>, Err(m), NoImage)
          /\ UNCHANGED page
  /\ UNCHANGED << server, contentImageSupported, fs, sessions, call, browser >>

\* src/index.ts:155-158: page.addScriptTag returns and page.$eval is issued.
AddScriptReturn(r) ==
  /\ pc[r] = "addScript"
  /\ \/ Advance(r, << Ok("addScript") >>, "eval")
     \/ \E m \in EnvMessages :
          ExitTry(r, << Fail("addScript", m) >>, Err(m), NoImage)
  /\ UNCHANGED << server, contentImageSupported, fs, sessions, call, browser, page >>

\* src/index.ts:158-203: the in-page evaluation returns {success: true}, returns
\* {success: false, error} (render threw, or no svg came out), or $eval rejects.
EvalReturn(r) ==
  /\ pc[r] = "eval"
  /\ \/ /\ page' = [page EXCEPT ![r].svg =
                      [code |-> call[r].args.p["code"].v,
                       theme |-> OrElse(call[r].args.p["theme"], Str(<<"default">>)).v,
                       background |->
                         OrElse(call[r].args.p["backgroundColor"], Str(<<"white">>)).v]]
        /\ Advance(r, << Ok("eval"), Ok("render") >>, "query")
     \/ \E e \in LibMessages \cup {SvgNotFoundAfterRenderingMsg} :
          /\ ExitTry(r, << Ok("eval"), Fail("render", RenderFailedMsg(e)) >>,
                     Err(RenderFailedMsg(e)), NoImage)
          /\ UNCHANGED page
     \/ \E m \in EnvMessages :
          /\ ExitTry(r, << Fail("eval", m) >>, Err(m), NoImage)
          /\ UNCHANGED page
  /\ UNCHANGED << server, contentImageSupported, fs, sessions, call, browser >>

\* src/index.ts:203-209: page.$ returns the element, returns null, or rejects.
QueryReturn(r) ==
  /\ pc[r] = "query"
  /\ \/ Advance(r, << Ok("query") >>, "screenshot")
     \/ ExitTry(r, << Fail("query", SvgNotFoundMsg) >>, Err(SvgNotFoundMsg), NoImage)
     \/ \E m \in EnvMessages :
          ExitTry(r, << Fail("query", m) >>, Err(m), NoImage)
  /\ UNCHANGED << server, contentImageSupported, fs, sessions, call, browser, page >>

\* What svgElement.screenshot captures in the request's own page.
Screenshot(r) ==
  [session |-> browser[r], svg |-> page[r].svg, pageBackground |-> page[r].doc.background]

\* src/index.ts:209-220: the screenshot returns; the temp file is unlinked
\* (unlinkSync throws when the file is not there) and the image is returned.
ScreenshotReturn(r) ==
  /\ pc[r] = "screenshot"
  /\ \/ /\ tempHtmlPath \in DOMAIN fs
        /\ fs' = [q \in DOMAIN fs \ {tempHtmlPath} |-> fs[q]]
        /\ ExitTry(r, << Ok("screenshot"), Ok("unlink") >>,
                   NoError, Screenshot(r))
     \/ /\ tempHtmlPath \notin DOMAIN fs
        /\ ExitTry(r, << Ok("screenshot"), Fail("unlink", EnoentMsg) >>,
                   Err(EnoentMsg), NoImage)
        /\ UNCHANGED fs
     \/ \E m \in EnvMessages :
          /\ tempHtmlPath \in DOMAIN fs
          /\ ExitTry(r, << Ok("screenshot"), Fail("unlink", m) >>,
                     Err(m), NoImage)
          /\ UNCHANGED fs
     \/ \E m \in EnvMessages :
          /\ ExitTry(r, << Fail("screenshot", m) >>, Err(m), NoImage)
          /\ UNCHANGED fs
  /\ UNCHANGED << server, contentImageSupported, sessions, call, browser, page >>

\* The finally block is over: renderMermaidPng settles with the error browser.close
\* threw, else with the error of the try block, else with the image; the handler
\* (src/index.ts:259-296) answers.
Settle(r, closeError) ==
  IF closeError.threw THEN HandlerCatch(r, closeError.message)
  ELSE IF thrown[r].threw THEN HandlerCatch(r, thrown[r].message)
  ELSE Return(r, SuccessResponse(shot[r]))

\* src/index.ts:232-235: browser.close() resolves, or rejects; a close that
\* rejects may or may not have ended the session.
CloseReturn(r) ==
  /\ pc[r] = "close"
  /\ \/ /\ sessions' = [sessions EXCEPT ![browser[r]] = "closed"]
        /\ Did(r, << Ok("close") >>)
        /\ Settle(r, NoError)
     \/ \E m \in EnvMessages, left \in {"open", "closed"} :
          /\ sessions' = [sessions EXCEPT ![browser[r]] = left]
          /\ Did(r, << Fail("close", m) >>)
          /\ Settle(r, Err(m))
  /\ page' = [page EXCEPT ![r] = NoPage]
  /\ UNCHANGED << server, contentImageSupported, fs, call, browser >>

\* The call renderMermaidPng awaits returns or throws.
CallReturn(r) ==
  \/ LaunchReturn(r)
  \/ NewPageReturn(r)
  \/ GotoReturn(r)
  \/ AddScriptReturn(r)
  \/ EvalReturn(r)
  \/ QueryReturn(r)
  \/ ScreenshotReturn(r)
  \/ CloseReturn(r)

\* A mutant: a timer answers for a request whose launch or render is pending.
Render_withTimeout(r) ==
  \/ CallReturn(r)
  \/ Console(r)
  \/ /\ pc[r] \in {"launch", "eval"}
     /\ HandlerCatch(r, <<"Timed", "out">>)
     /\ UNCHANGED << server, contentImageSupported, fs, sessions, call, browser,
                     page, steps >>

\* A step of renderMermaidPng.
Render(r) == CallReturn(r) \/ Console(r)

Next ==
  \/ Connect
  \/ \E r \in Reqs : Receive(r) \/ Render(r)

Spec == Init /\ [][Next]_vars

\* The server, its requests carrying the payloads of PlainPayloads, when every
\* call into puppeteer and the page returns or throws in the end.
NextPlain ==
  \/ Connect
  \/ \E r \in Reqs : ReceivePlain(r) \/ Render(r)

FairSpec == Init /\ [][NextPlain]_vars /\ \A r \in Reqs : WF_vars(CallReturn(r))

\* The same server, its requests carrying the payloads of StylePayloads.
NextStyle ==
  \/ Connect
  \/ \E r \in Reqs : ReceiveStyled(r) \/ Render(r)

SpecStyle == Init /\ [][NextStyle]_vars

\* The handler's argument checks alone, on every payload of AllPayloads.
NextArgs == Connect \/ \E r \in Reqs : ReceiveAny(r)

SpecArgs == Init /\ [][NextArgs]_vars

(* ------------------------- reading the history ------------------------- *)

Received(r) == pc[r] # "idle"
Done(r) == pc[r] = "done"
OthersIdle(r) == \A q \in Reqs \ {r} : pc[q] = "idle"

Happened(r, op) == \E i \in 1..Len(steps[r]) : steps[r][i].op = op
Succeeded(r, op) == \E i \in 1..Len(steps[r]) : steps[r][i] = Ok(op)
Failed(r, op) == \E i \in 1..Len(steps[r]) : steps[r][i].op = op /\ ~steps[r][i].ok
FailedWith(r, op, message) == \E i \in 1..Len(steps[r]) : steps[r][i] = Fail(op, message)

\* The one response of a request that has returned.
Resp(r) == responses[r][1]
\* The text of a response that is one text block.
OneText(resp, text) == resp.content = << TextBlock(text) >>

\* The request got as far as renderMermaidPng.
ReachedAdapter(r) == pc[r] \notin {"idle", "done"} \/ (Done(r) /\ steps[r] # << >>)

\* The steps the spec calls infrastructure.
InfraOps == {"launch", "newPage", "write", "goto", "addScript", "eval", "query", "screenshot"}

(* -------------------------------- claims ------------------------------- *)

C2_TempFileGoneAfterResponse ==
  \A r \in Reqs :
    (Done(r) /\ Succeeded(r, "write") /\ OthersIdle(r)) =>
       tempHtmlPath \notin DOMAIN fs

\* C3: a request whose arguments are absent, lack `code` or fail the validator
\* has returned an error response, and has launched no session, run no rendering
\* step and written no temp file.
C3_InvalidNeverLaunches ==
  \A r \in Reqs :
    ( /\ Received(r)
      /\ call[r].name = "generate"
      /\ \/ call[r].args.kind = "undefined"
         \/ call[r].args.p["code"] = Undefined
         \/ ~isGenerateArgs(call[r].args) ) =>
       /\ Done(r)
       /\ steps[r] = << >>
       /\ sessions[r] = "none" /\ browser[r] = 0
       /\ (tempHtmlPath \in DOMAIN fs => fs[tempHtmlPath].writer # r)
       /\ Len(responses[r]) = 1 /\ Resp(r).isError /\ OnlyText(Resp(r))

\* A `generate` without `code` was answered "Invalid arguments for generate".
C3_Witness ==
  \E r \in Reqs :
    /\ Done(r) /\ call[r].name = "generate" /\ call[r].args = EmptyObj
    /\ Resp(r) = OuterCatchResponse(InvalidArgumentsMsg)

\* What C4 says the validator accepts.
C4_ClaimedValid(args) ==
  /\ args.kind = "object"
  /\ args.p["code"].t = "string" /\ args.p["code"].v # << >>
  /\ \/ args.p["theme"] = Undefined
     \/ (args.p["theme"].t = "string" /\ args.p["theme"].v \in Themes)
  /\ \/ args.p["backgroundColor"] = Undefined
     \/ args.p["backgroundColor"].t = "string"

\* C4 (as claimed): a `generate` request passes the validator (and goes on to
\* launch) if and only if its payload is a non-null object with a non-empty
\* string `code`, a theme absent or of the enumeration, and a backgroundColor
\* absent or a string.
C4_ValidatorAcceptsExactly ==
  \A r \in Reqs :
    (Received(r) /\ call[r].name = "generate") =>
       (pc[r] = "launch" <=> C4_ClaimedValid(call[r].args))

C6_RenderRejectionGetsSyntaxHint ==
  \A r \in Reqs :
    (Done(r) /\ Failed(r, "render")) =>
       /\ Resp(r).isError
       /\ Len(Resp(r).content) = 1 /\ OnlyText(Resp(r))
       /\ StartsWith(Resp(r).content[1].text, SyntaxHintPrefix)
       /\ EndsWith(Resp(r).content[1].text, SyntaxHintSuffix)

\* Whether a message holds one of the three patterns the handler looks for.
C7_HasPattern(message) ==
  \/ Includes(message, <<"Syntax", "error">>)
  \/ Includes(message, <<"Parse", "error">>)
  \/ Includes(message, <<"Mermaid", "rendering", "failed">>)

\* The text the handler builds around a message.
C7_TextFor(message) ==
  IF C7_HasPattern(message)
    THEN <<"Mermaid", "syntax", "error", ":">> \o message
           \o <<"\n\n", "Please", "check", "your", "diagram", "syntax", ".">>
    ELSE <<"Error", "generating", "diagram", ":">> \o message

\* C7 (as claimed): an infrastructure failure is reported as isError with the
\* text "Error generating diagram: " and the underlying message, whatever the
\* message.
C7_InfraAlwaysGeneric ==
  \A r \in Reqs : \A op \in InfraOps : \A m \in EnvMessages \cup {SvgNotFoundMsg, FileNotFoundMsg} :
    (Done(r) /\ FailedWith(r, op, m)) =>
       /\ Resp(r).isError
       /\ OneText(Resp(r), <<"Error", "generating", "diagram", ":">> \o m)

\* C7 (amended): an infrastructure failure is reported as isError with one text
\* block, built from the underlying message, or from browser.close's message
\* when close throws as well: "Error generating diagram: " and the message when
\* the message holds none of the three patterns, the syntax hint around it
\* otherwise.
C7_InfraReportedByMessage ==
  \A r \in Reqs : \A op \in InfraOps : \A m \in EnvMessages \cup {SvgNotFoundMsg, FileNotFoundMsg} :
    (Done(r) /\ FailedWith(r, op, m)) =>
       /\ Resp(r).isError
       /\ IF Failed(r, "close")
            THEN \E c \in EnvMessages :
                   FailedWith(r, "close", c) /\ OneText(Resp(r), C7_TextFor(c))
            ELSE OneText(Resp(r), C7_TextFor(m))

\* A navigation that failed with a message holding "Parse error" was reported
\* with the syntax hint, and a script injection that failed with a plain
\* message was reported with the generic prefix.
C7_Witness ==
  \E r, q \in Reqs :
    /\ Done(r) /\ FailedWith(r, "goto", <<"Parse", "error", "in", "page">>)
    /\ Succeeded(r, "close")
    /\ StartsWith(Resp(r).content[1].text, SyntaxHintPrefix)
    /\ Done(q) /\ FailedWith(q, "addScript", <<"Protocol", "error">>)
    /\ Succeeded(q, "close")
    /\ OneText(Resp(q), GenericPrefix \o <<"Protocol", "error">>)

\* C8: whatever threw while a request was handled (the argument checks, launch,
\* a rendering step, the unlink, browser.close), the handler returned one
\* response with isError true, the process is still running, and a request
\* not yet sent can still be received.
C8_NoFailureEscapes ==
  /\ \A r \in Reqs :
       ( /\ Done(r)
         /\ \/ \E i \in 1..Len(steps[r]) : ~steps[r][i].ok
            \/ call[r].args.kind = "undefined"
            \/ ~isGenerateArgs(call[r].args) ) =>
          (Len(responses[r]) = 1 /\ Resp(r).isError)
  /\ (\E r \in Reqs : Received(r)) =>
       /\ server = "running"
       /\ \A q \in Reqs : pc[q] = "idle" => ENABLED Receive(q)

\* browser.close threw in the finally block after a good screenshot; the
\* request was answered with an error and the other request can still arrive.
C8_Witness ==
  \E r, q \in Reqs :
    /\ Done(r) /\ Succeeded(r, "unlink") /\ Failed(r, "close")
    /\ Resp(r).isError /\ server = "running"
    /\ pc[q] = "idle" /\ ENABLED Receive(q)

\* path.join(folder, name + '.png'), as the README describes the saved file.
C9_PngPath(args) == args.p["folder"].v \o <<"/">> \o args.p["name"].v \o <<".png">>

\* C9 (as claimed): a successful `generate` with name and folder returns, when
\* CONTENT_IMAGE_SUPPORTED is false, one text block that is the path
\* folder/name.png of a file it wrote, and no image; when it is true, an image
\* block, and it writes no such file.
C9_OutputModeSelectsShape ==
  \A r \in Reqs :
    ( /\ Done(r) /\ Succeeded(r, "unlink") /\ Succeeded(r, "close")
      /\ call[r].args.p["name"] # Undefined /\ call[r].args.p["folder"] # Undefined ) =>
       IF contentImageSupported
         THEN HasImage(Resp(r)) /\ C9_PngPath(call[r].args) \notin DOMAIN fs
         ELSE /\ OneText(Resp(r), C9_PngPath(call[r].args))
              /\ C9_PngPath(call[r].args) \in DOMAIN fs

\* C10 (as claimed): with CONTENT_IMAGE_SUPPORTED false, a `generate` request
\* without `name` or without `folder` is answered with an error before any
\* session is launched.
C10_FileModeNeedsNameAndFolder ==
  \A r \in Reqs :
    ( /\ ~contentImageSupported
      /\ Received(r) /\ call[r].name = "generate"
      /\ \/ call[r].args.p["name"] = Undefined
         \/ call[r].args.p["folder"] = Undefined ) =>
       /\ Done(r) /\ steps[r] = << >>
       /\ Resp(r).isError

\* The requests that are being handled, and the sessions that are open.
InFlight == { r \in Reqs : pc[r] \notin {"idle", "done"} }
OpenSessions == { s \in Reqs : sessions[s] = "open" }

\* The requests that returned after their browser.close() rejected.
CloseRejected == { r \in Reqs : Done(r) /\ Failed(r, "close") }

\* The sessions are used and closed by the requests that launched them.
C11_OwnSession ==
  \A r \in Reqs :
    /\ browser[r] \in {0, r}
    /\ sessions[r] # "none" => Succeeded(r, "launch") /\ browser[r] = r
    /\ sessions[r] = "closed" => Happened(r, "close")
    /\ shot[r] # NoImage => shot[r].session = r

C12_NoSharedResource ==
  \A r \in Reqs :
    /\ pc[r] \in {"goto", "addScript", "eval", "query", "screenshot"} =>
         tempHtmlPath \in DOMAIN fs /\ fs[tempHtmlPath].writer = r
    /\ page[r].doc # NoDoc => page[r].doc.writer = r

\* The lines occur in the text, one after the other.
RECURSIVE CarriesInOrder(_, _)
CarriesInOrder(text, lines) ==
  IF lines = << >> THEN TRUE
  ELSE \E i \in 1..Len(text) :
         /\ StartsWith(SubSeq(text, i, Len(text)), Head(lines))
         /\ CarriesInOrder(SubSeq(text, i + Len(Head(lines)), Len(text)), Tail(lines))

\* The text of all the blocks of a response.
RECURSIVE AllText(_)
AllText(content) ==
  IF content = << >> THEN << >>
  ELSE (IF Head(content).type = "text" THEN Head(content).text ELSE << >>)
       \o AllText(Tail(content))

\* C13 (as claimed): when a request whose render failed is answered, the error
\* response carries the syntax-hint prefix and the console lines captured in
\* the session, in the order they were emitted; when a request that succeeded
\* is answered, none of the captured lines is in the response.
C13_DiagnosticsOnFailureReports ==
  [][\A r \in Reqs :
       (pc[r] = "close" /\ pc'[r] = "done" /\ Succeeded(r, "close")') =>
          /\ Failed(r, "render") =>
               /\ StartsWith(AllText(Resp(r)'.content), SyntaxHintPrefix)
               /\ CarriesInOrder(AllText(Resp(r)'.content), console[r])
          /\ ~thrown[r].threw =>
               \A i \in 1..Len(console[r]) :
                 ~Includes(AllText(Resp(r)'.content), console[r][i])]_vars

\* C14: the process exits only when server.connect fails at startup, before
\* any request is handled; no step of request handling, failed or not, makes
\* the process exit.
C14_ExitOnlyAtStartup ==
  /\ [][(server' = "exited" /\ server # "exited") =>
          /\ server = "starting"
          /\ \A r \in Reqs : pc[r] = "idle" /\ pc'[r] = "idle"]_vars
  /\ [](\A r \in Reqs : Received(r) => server = "running")

\* Requests failed at the launch, in the try block and at browser.close(), and
\* the process runs on.
C14_Witness ==
  /\ server = "running"
  /\ \E r \in Reqs : Done(r) /\ Failed(r, "launch")
  /\ \E r \in Reqs : Done(r) /\ Failed(r, "render") /\ Failed(r, "close")

\* C15: in inline mode a `generate` whose steps all succeeded returns
\* isError=false and exactly two content blocks, the confirmation text and an
\* image/png block whose data is the screenshot taken in the request's own
\* session of the diagram the request asked for.
C15_InlineSuccessShape ==
  \A r \in Reqs :
    ( /\ contentImageSupported
      /\ Done(r) /\ Succeeded(r, "unlink") /\ Succeeded(r, "close") ) =>
       /\ ~Resp(r).isError
       /\ Len(Resp(r).content) = 2
       /\ Resp(r).content[1] = TextBlock(<<"Here", "is", "the", "generated", "image">>)
       /\ Resp(r).content[2].type = "image"
       /\ Resp(r).content[2].mimeType = "image/png"
       /\ Resp(r).content[2].data.session = r
       /\ Resp(r).content[2].data.svg.code = call[r].args.p["code"].v

\* Both requests were answered with their image, in inline mode.
C15_Witness ==
  /\ contentImageSupported
  /\ \A r \in Reqs : Done(r) /\ Succeeded(r, "unlink") /\ Succeeded(r, "close")

\* The background and the theme of the document shell that is on disk, of the
\* diagram in the page, and of the image on its way out or in the response.
C16_Styled(r, background, theme) ==
  /\ (tempHtmlPath \in DOMAIN fs /\ fs[tempHtmlPath].writer = r) =>
        fs[tempHtmlPath].background = background
  /\ page[r].svg # NoSvg =>
        page[r].svg.background = background /\ page[r].svg.theme = theme
  /\ shot[r] # NoImage =>
        shot[r].svg.background = background /\ shot[r].svg.theme = theme
  /\ (Done(r) /\ HasImage(Resp(r))) =>
        /\ Resp(r).content[2].data.svg.background = background
        /\ Resp(r).content[2].data.svg.theme = theme

\* C16 (as claimed): for every accepted request the document shell written
\* for it and the background of its rendered SVG use the request's
\* backgroundColor when one is given and 'white' when it is absent, and the
\* theme passed to the library is the request's theme, or 'default' when absent.
C16_StyleAsRequested ==
  \A r \in Reqs :
    ReachedAdapter(r) =>
      C16_Styled(r,
        IF call[r].args.p["backgroundColor"] # Undefined
          THEN call[r].args.p["backgroundColor"].v ELSE <<"white">>,
        IF call[r].args.p["theme"] # Undefined
          THEN call[r].args.p["theme"].v ELSE <<"default">>)

\* C16 (amended): for every accepted request the document shell written for it
\* and the background of its rendered SVG use the request's backgroundColor
\* when it is a non-empty string and 'white' otherwise, and the theme passed
\* to the library is the request's theme when it is a non-empty string and
\* 'default' otherwise.
C16_StyleAsRequestedUnlessEmpty ==
  \A r \in Reqs :
    ReachedAdapter(r) =>
      C16_Styled(r,
        IF call[r].args.p["backgroundColor"] \notin {Undefined, Str(<<>>)}
          THEN call[r].args.p["backgroundColor"].v ELSE <<"white">>,
        IF call[r].args.p["theme"] \notin {Undefined, Str(<<>>)}
          THEN call[r].args.p["theme"].v ELSE <<"default">>)

\* One request asked for a colour and a theme and its shell is on disk; the
\* other gave an empty colour and its diagram is rendered.
C16_Witness ==
  \E r, q \in Reqs :
    /\ call[r].args.p["backgroundColor"] = Str(<<"#F0F0F0">>)
    /\ tempHtmlPath \in DOMAIN fs /\ fs[tempHtmlPath].writer = r
    /\ call[q].args.p["backgroundColor"] = Str(<<>>)
    /\ page[q].svg # NoSvg

\* The steps of a request in the order of the code.
StepOrder == << "launch", "newPage", "write", "goto", "addScript", "eval", "render",
                "query", "screenshot", "unlink", "close" >>
Rank(op) == CHOOSE i \in 1..Len(StepOrder) : StepOrder[i] = op

\* C17: a request is one linear pass: it is validated before anything is
\* launched, its steps happen at most once each and in the order launch, page,
\* write, navigate, inject, render, screenshot, delete, close; after a step
\* failed nothing but the close of the session follows, and the one response
\* comes last.
C17_LinearPass ==
  \A r \in Reqs :
    /\ steps[r] # << >> => call[r].name = "generate" /\ isGenerateArgs(call[r].args)
    /\ \A i, j \in 1..Len(steps[r]) :
         i < j => /\ Rank(steps[r][i].op) < Rank(steps[r][j].op)
                  /\ ~steps[r][i].ok => steps[r][j].op = "close"
    /\ Len(responses[r]) = (IF Done(r) THEN 1 ELSE 0)
    /\ (Done(r) /\ Succeeded(r, "launch")) => steps[r][Len(steps[r])].op = "close"

\* One request went through all its steps, the other failed at the render and
\* closed its session.
C17_Witness ==
  \E r, q \in Reqs :
    /\ Done(r) /\ Len(steps[r]) = Len(StepOrder) /\ \A op \in InfraOps : Succeeded(r, op)
    /\ Done(q) /\ Failed(q, "render") /\ Happened(q, "close")

\* C18 (as claimed): a request whose render and screenshot succeeded, and whose
\* own file system and browser did not fail it, is answered with its image,
\* whatever another request in flight does to temp-mermaid.html.
C18_OthersCannotFailIt ==
  \A r \in Reqs :
    ( /\ Done(r) /\ Succeeded(r, "render") /\ Succeeded(r, "screenshot")
      /\ Succeeded(r, "close")
      /\ \A m \in EnvMessages : ~FailedWith(r, "unlink", m) ) =>
       ~Resp(r).isError /\ HasImage(Resp(r))

\* C19 (as claimed): a failure of the cleanup never changes the outcome: a
\* request whose screenshot was captured is answered with the image even when
\* deleting the temp document or closing the browser throws, and an error is
\* answered only when a step up to the screenshot failed.
C19_CleanupNeverChangesOutcome ==
  \A r \in Reqs :
    (Done(r) /\ ReachedAdapter(r)) =>
       /\ Succeeded(r, "screenshot") => ~Resp(r).isError /\ HasImage(Resp(r))
       /\ Resp(r).isError => \E op \in InfraOps \cup {"render"} : Failed(r, op)

\* C20: a call that names a tool other than "generate" launches no browser and
\* is answered at once with isError=true and one text block: "Unknown tool:
\* <name>" when it carries arguments, "Error: No arguments provided" when it
\* carries none.
C20_OtherToolNeverLaunches ==
  \A r \in Reqs :
    (Received(r) /\ call[r].name # "generate") =>
       /\ Done(r) /\ steps[r] = << >> /\ sessions[r] = "none"
       /\ Resp(r).isError
       /\ IF call[r].args.kind = "undefined"
            THEN OneText(Resp(r), <<"Error", ":", "No", "arguments", "provided">>)
            ELSE OneText(Resp(r), <<"Unknown", "tool", ":", call[r].name>>)

\* One call of another tool came without arguments, one with.
C20_Witness ==
  \E r, q \in Reqs :
    /\ Done(r) /\ call[r].name # "generate" /\ call[r].args.kind = "undefined"
    /\ Done(q) /\ call[q].name # "generate" /\ call[q].args.kind = "object"

\* A request is answered only by the return of the call it awaits: while its
\* launch or its render is pending, nothing but that call's return (recorded
\* in its steps) moves it on or answers it.
C21_NoTimeout ==
  [][\A r \in Reqs :
       (pc[r] \in {"launch", "eval"} /\ (pc'[r] # pc[r] \/ responses'[r] # responses[r])) =>
          /\ Len(steps'[r]) > Len(steps[r])
          /\ steps'[r][Len(steps[r]) + 1].op = pc[r]]_vars

\* Every accepted `generate` request is answered in the end.
C21_Answered == \A r \in Reqs : (pc[r] = "launch") ~> Done(r)

=============================================================================
